---- MODULE Spec2Model ----
(***************************************************************************)
(* A model of pbit_lsb_release: LSBCommand.run, LSB.makeLSB, LSB.info and  *)
(* the per-distribution derivers CentOSLSB, FedoraLSB and RhelLSB.         *)
(*                                                                         *)
(* A Python str is a sequence of one-character strings, so that strip,     *)
(* replace, startswith, format and the regular expressions are computed    *)
(* character by character.                                                 *)
(***************************************************************************)
EXTENDS Integers, Sequences, FiniteSets, TLC

VARIABLES
  src,        \* the values written into /etc/os-release (None: line absent)
  osRelease,  \* /etc/os-release: [readable, lines]
  argv,       \* the command-line flags given
  args,       \* the argparse namespace after _getArguments
  rawData,    \* LSB.__rawData
  lsb,        \* the class of the constructed deriver, or "none"
  pc,         \* position in LSBCommand.run / in a deriver method call
  report,     \* the value of LSB.info
  error,      \* the exception that ended the run, or "none"
  stdout,     \* what print() has written
  call,       \* the deriver method called
  arg,        \* the lineId it was called with, for _getLineData
  ret         \* its result

vars == <<src, osRelease, argv, args, rawData, lsb, pc, report, error, stdout,
          call, arg, ret>>

(***************************************************************************)
(* Bounds of the model.                                                    *)
(***************************************************************************)
\* longest VERSION / PRETTY_NAME value enumerated exhaustively
MaxLen == 5
\* how far outside 0..99 the enumerated VERSION_ID numbers reach
RelMargin == 12
\* most parts a NAME value is assembled from
MaxNameParts == 3

(***************************************************************************)
(* Python values.                                                          *)
(***************************************************************************)
\* Python's None: a one-element sequence whose element is no character.
None == <<"<None>">>
IsNone(v) == v = None

\* A call either returns a value or raises.
Ok(v) == [ok |-> TRUE, val |-> v, err |-> "none"]
Raise(e) == [ok |-> FALSE, val |-> <<>>, err |-> e]
NoCall == [ok |-> FALSE, val |-> <<>>, err |-> "nocall"]

\* string.whitespace (the vertical tab has no TLA+ escape and is left out)
Whitespace == {" ", "\t", "\n", "\r", "\f"}

Max(S) == CHOOSE x \in S : \A y \in S : y <= x
Min(S) == CHOOSE x \in S : \A y \in S : x <= y

\* str.lstrip(chars), str.rstrip(chars), str.strip(chars)
RECURSIVE LStrip(_, _)
LStrip(s, chars) ==
  IF s # <<>> /\ Head(s) \in chars THEN LStrip(Tail(s), chars) ELSE s

RECURSIVE RStrip(_, _)
RStrip(s, chars) ==
  IF s # <<>> /\ s[Len(s)] \in chars
  THEN RStrip(SubSeq(s, 1, Len(s) - 1), chars)
  ELSE s

StripChars(s, chars) == LStrip(RStrip(s, chars), chars)

\* str.strip()
Strip(s) == StripChars(s, Whitespace)

\* str.replace(" ", "")
ReplaceSpaces(s) == SelectSeq(s, LAMBDA c : c # " ")

\* str.startswith(prefix)
StartsWith(s, prefix) ==
  Len(s) >= Len(prefix) /\ SubSeq(s, 1, Len(prefix)) = prefix

\* any([x in data for x in string.whitespace])
HasWhitespace(s) == \E i \in 1..Len(s) : s[i] \in Whitespace

\* "{0}".format(v): None is rendered as the text None
Str(v) == IF IsNone(v) THEN <<"N","o","n","e">> ELSE v

\* sep.join(parts)
RECURSIVE Join(_, _)
Join(sep, parts) ==
  IF parts = <<>> THEN <<>>
  ELSE IF Len(parts) = 1 THEN parts[1]
  ELSE parts[1] \o sep \o Join(sep, Tail(parts))

(***************************************************************************)
(* int(str): surrounding whitespace, an optional sign, decimal digits.     *)
(***************************************************************************)
DigitChars == <<"0","1","2","3","4","5","6","7","8","9">>
IsDigit(c) == \E d \in 1..10 : DigitChars[d] = c
DigitVal(c) == (CHOOSE d \in 1..10 : DigitChars[d] = c) - 1

RECURSIVE DigitsVal(_)
DigitsVal(s) ==
  IF s = <<>> THEN 0
  ELSE 10 * DigitsVal(SubSeq(s, 1, Len(s) - 1)) + DigitVal(s[Len(s)])

ParseInt(v) ==
  IF IsNone(v) THEN Raise("TypeError")
  ELSE LET t == Strip(v)
           signed == t # <<>> /\ Head(t) \in {"+", "-"}
           digits == IF signed THEN Tail(t) ELSE t
       IN IF digits = <<>> \/ \E i \in 1..Len(digits) : ~IsDigit(digits[i])
          THEN Raise("ValueError")
          ELSE IF signed /\ Head(t) = "-"
               THEN Ok(0 - DigitsVal(digits))
               ELSE Ok(DigitsVal(digits))

(***************************************************************************)
(* LSB._getRawData, LSB._getLineData and the base derivations.             *)
(***************************************************************************)
\* the lines of the file, stripped, the empty ones dropped
_getRawData(file) ==
  IF ~file.readable THEN Raise("IOError")
  ELSE Ok(SelectSeq([i \in 1..Len(file.lines) |-> Strip(file.lines[i])],
                    LAMBDA line : Len(line) > 0))

\* _getLineData looking for the key alone, without the "="
_getLineDataNoEquals(lineId, data) ==
  LET hits == {i \in 1..Len(data) : StartsWith(data[i], lineId)}
  IN IF hits = {} THEN None
     ELSE LET line == data[Min(hits)]
          IN StripChars(SubSeq(line, Len(lineId) + 1, Len(line)), {"\"", "'"})

_getLineData(lineId, data) ==
  LET key == lineId \o <<"=">>
      hits == {i \in 1..Len(data) : StartsWith(data[i], key)}
  IN IF hits = {} THEN None
     ELSE LET line == data[Min(hits)]
          IN StripChars(SubSeq(line, Len(key) + 1, Len(line)), {"\"", "'"})

_getDistribution(data) == _getLineData(<<"I","D">>, data)

_getRelease(data) ==
  Ok(_getLineData(<<"V","E","R","S","I","O","N","_","I","D">>, data))

LSB_getVersion(data) ==
  Ok(_getLineData(<<"V","E","R","S","I","O","N">>, data))

LSB_getDescription(data) ==
  Ok(_getLineData(<<"P","R","E","T","T","Y","_","N","A","M","E">>, data))

(***************************************************************************)
(* ReleaseAsText._getReleaseAsText.                                        *)
(***************************************************************************)
digitMap ==
  [d \in 0..9 |->
    CASE d = 0 -> <<>>
      [] d = 1 -> <<"O","n","e">>
      [] d = 2 -> <<"T","w","o">>
      [] d = 3 -> <<"T","h","r","e","e">>
      [] d = 4 -> <<"F","o","u","r">>
      [] d = 5 -> <<"F","i","v","e">>
      [] d = 6 -> <<"S","i","x">>
      [] d = 7 -> <<"S","e","v","e","n">>
      [] d = 8 -> <<"E","i","g","h","t">>
      [] d = 9 -> <<"N","i","n","e">>
  ]

\* tensMap[10], the nested table of the teens
teensMap ==
  [d \in 0..9 |->
    CASE d = 0 -> <<"T","e","n">>
      [] d = 1 -> <<"E","l","e","v","e","n">>
      [] d = 2 -> <<"T","w","e","l","v","e">>
      [] d = 3 -> <<"T","h","i","r","t","e","e","n">>
      [] d = 4 -> <<"F","o","u","r","t","e","e","n">>
      [] d = 5 -> <<"F","i","f","t","e","e","n">>
      [] d = 6 -> <<"S","i","x","t","e","e","n">>
      [] d = 7 -> <<"S","e","v","e","n","t","e","e","n">>
      [] d = 8 -> <<"E","i","g","h","t","e","e","n">>
      [] d = 9 -> <<"N","i","n","e","t","e","e","n">>
  ]

tensMap ==
  [t \in {0, 10, 20, 30, 40, 50, 60, 70, 80, 90} |->
    CASE t = 0 -> <<>>
      [] t = 10 -> teensMap
      [] t = 20 -> <<"T","w","e","n","t","y">>
      [] t = 30 -> <<"T","h","i","r","t","y">>
      [] t = 40 -> <<"F","o","r","t","y">>
      [] t = 50 -> <<"F","i","f","t","y">>
      [] t = 60 -> <<"S","i","x","t","y">>
      [] t = 70 -> <<"S","e","v","e","n","t","y">>
      [] t = 80 -> <<"E","i","g","h","t","y">>
      [] t = 90 -> <<"N","i","n","e","t","y">>
  ]

\* ReleaseText with the .strip() forgotten
ReleaseTextNoStrip(releaseNumber) ==
  LET digit == releaseNumber % 10
      tens == (releaseNumber \div 10) * 10
  IN IF tens = 10 THEN Ok(tensMap[tens][digit])
     ELSE IF tens \notin DOMAIN tensMap THEN Raise("KeyError")
     ELSE Ok(tensMap[tens] \o <<" ">> \o digitMap[digit])

\* the spelling of an already parsed release number
ReleaseText(releaseNumber) ==
  LET digit == releaseNumber % 10
      tens == (releaseNumber \div 10) * 10
  IN IF tens = 10 THEN Ok(tensMap[tens][digit])
     ELSE IF tens \notin DOMAIN tensMap THEN Raise("KeyError")
     ELSE Ok(Strip(tensMap[tens] \o <<" ">> \o digitMap[digit]))

_getReleaseAsText(data) ==
  LET releaseNumber == ParseInt(_getRelease(data).val)
  IN IF ~releaseNumber.ok THEN releaseNumber
     ELSE ReleaseText(releaseNumber.val)

(***************************************************************************)
(* The regular expressions, as re.search resolves them: the pattern begins *)
(* with a greedy .* , so a match, if any, starts at the first character,   *)
(* and each greedy quantifier, left to right, takes the longest text that  *)
(* still lets the rest match.  A line of rawData holds no newline.         *)
(***************************************************************************)
\* SearchCodename with lazy quantifiers: the first ( and the first ) after it
SearchCodenameFirst(value) ==
  LET opens == {i \in 1..Len(value) :
                  /\ value[i] = "("
                  /\ \E j \in (i + 2)..Len(value) : value[j] = ")"}
  IN IF opens = {} THEN [matched |-> FALSE, group1 |-> <<>>]
     ELSE LET i == Min(opens)
              j == Min({k \in (i + 2)..Len(value) : value[k] = ")"})
          IN [matched |-> TRUE, group1 |-> SubSeq(value, i + 1, j - 1)]

\* re.search(r".*\((.+)\)", value): [matched, group1]
SearchCodename(value) ==
  LET opens == {i \in 1..Len(value) :
                  /\ value[i] = "("
                  /\ \E j \in (i + 2)..Len(value) : value[j] = ")"}
  IN IF opens = {} THEN [matched |-> FALSE, group1 |-> <<>>]
     ELSE LET i == Max(opens)
              j == Max({k \in (i + 2)..Len(value) : value[k] = ")"})
          IN [matched |-> TRUE, group1 |-> SubSeq(value, i + 1, j - 1)]

\* SearchParenthetical with lazy quantifiers: the first ( and the first )
\* after it
SearchParentheticalFirst(value) ==
  LET opens == {i \in 1..Len(value) :
                  /\ value[i] = "("
                  /\ \E j \in (i + 1)..Len(value) : value[j] = ")"}
  IN IF opens = {} THEN [matched |-> FALSE, group1 |-> <<>>, group2 |-> <<>>]
     ELSE LET i == Min(opens)
              j == Min({k \in (i + 1)..Len(value) : value[k] = ")"})
          IN [matched |-> TRUE,
              group1 |-> SubSeq(value, 1, i),
              group2 |-> SubSeq(value, j, Len(value))]

\* re.search(r"(.*\().*(\).*)", value): [matched, group1, group2]
SearchParenthetical(value) ==
  LET opens == {i \in 1..Len(value) :
                  /\ value[i] = "("
                  /\ \E j \in (i + 1)..Len(value) : value[j] = ")"}
  IN IF opens = {} THEN [matched |-> FALSE, group1 |-> <<>>, group2 |-> <<>>]
     ELSE LET i == Max(opens)
              j == Max({k \in (i + 1)..Len(value) : value[k] = ")"})
          IN [matched |-> TRUE,
              group1 |-> SubSeq(value, 1, i),
              group2 |-> SubSeq(value, j, Len(value))]

(***************************************************************************)
(* The derivations of the base class LSB.                                  *)
(***************************************************************************)
LSB_getCodename(data) ==
  LET codename == _getLineData(<<"V","E","R","S","I","O","N">>, data)
  IN IF IsNone(codename) THEN Raise("TypeError")
     ELSE LET m == SearchCodename(codename)
          IN IF ~m.matched THEN Raise("AttributeError")
             ELSE Ok(ReplaceSpaces(m.group1))

_getIdentifier(data) ==
  LET identifier == _getLineData(<<"N","A","M","E">>, data)
  IN IF IsNone(identifier) THEN Raise("AttributeError")
     ELSE Ok(ReplaceSpaces(Strip(RStrip(identifier, {"L","i","n","u","x"}))))

(***************************************************************************)
(* CentOSLSB.                                                              *)
(***************************************************************************)
CentOS_getCodename(data) ==
  LET text == _getReleaseAsText(data)
  IN IF ~text.ok THEN text ELSE Ok(ReplaceSpaces(text.val))

\* AppendReleaseText with the format "{0}({1})"
AppendReleaseTextNoSpace(value, data) ==
  LET text == _getReleaseAsText(data)
  IN IF ~text.ok THEN text
     ELSE Ok(Str(value) \o <<"(">> \o text.val \o <<")">>)

\* "{0} ({1})".format(value, self._getReleaseAsText())
AppendReleaseText(value, data) ==
  LET text == _getReleaseAsText(data)
  IN IF ~text.ok THEN text
     ELSE Ok(Str(value) \o <<" ", "(">> \o text.val \o <<")">>)

CentOS_getDescription(data) ==
  AppendReleaseText(
    _getLineData(<<"P","R","E","T","T","Y","_","N","A","M","E">>, data), data)

CentOS_getVersion(data) ==
  AppendReleaseText(_getLineData(<<"V","E","R","S","I","O","N">>, data), data)

(***************************************************************************)
(* FedoraLSB.                                                              *)
(***************************************************************************)
\* FedoraLSB without its _getCodename override
Fedora_getCodenameInherited(data) == LSB_getCodename(data)

Fedora_getCodename(data) ==
  LET text == _getReleaseAsText(data)
  IN IF ~text.ok THEN text ELSE Ok(ReplaceSpaces(text.val))

_replaceParentheticalWithReleaseText(value, data) ==
  IF IsNone(value) THEN Raise("TypeError")
  ELSE LET result == SearchParenthetical(value)
       IN IF ~result.matched THEN Raise("AttributeError")
          ELSE LET text == _getReleaseAsText(data)
               IN IF ~text.ok THEN text
                  ELSE Ok(result.group1 \o text.val \o result.group2)

Fedora_getDescription(data) ==
  _replaceParentheticalWithReleaseText(LSB_getDescription(data).val, data)

Fedora_getVersion(data) ==
  _replaceParentheticalWithReleaseText(LSB_getVersion(data).val, data)

(***************************************************************************)
(* Method resolution: RhelLSB overrides nothing.                           *)
(***************************************************************************)
Classes == {"CentOSLSB", "FedoraLSB", "RhelLSB"}

_getCodename(cls, data) ==
  CASE cls = "CentOSLSB" -> CentOS_getCodename(data)
    [] cls = "FedoraLSB" -> Fedora_getCodename(data)
    [] OTHER -> LSB_getCodename(data)

_getDescription(cls, data) ==
  CASE cls = "CentOSLSB" -> CentOS_getDescription(data)
    [] cls = "FedoraLSB" -> Fedora_getDescription(data)
    [] OTHER -> LSB_getDescription(data)

_getVersion(cls, data) ==
  CASE cls = "CentOSLSB" -> CentOS_getVersion(data)
    [] cls = "FedoraLSB" -> Fedora_getVersion(data)
    [] OTHER -> LSB_getVersion(data)

\* the dict display: its values are evaluated in this order
InfoDict(codename, description, identifier, release, version) ==
  IF ~codename.ok THEN codename
  ELSE IF ~description.ok THEN description
  ELSE IF ~identifier.ok THEN identifier
  ELSE IF ~release.ok THEN release
  ELSE IF ~version.ok THEN version
  ELSE Ok([codename |-> codename.val,
           description |-> description.val,
           identifier |-> identifier.val,
           release |-> release.val,
           version |-> version.val])

_getInfo(cls, data) ==
  InfoDict(_getCodename(cls, data), _getDescription(cls, data),
           _getIdentifier(data), _getRelease(data), _getVersion(cls, data))

(***************************************************************************)
(* LSB._formatData and the five _format* methods, LSB.info.                *)
(***************************************************************************)
\* _formatData quoting on a space only, not on any whitespace
_formatDataSpaceOnly(a, prefix, data) ==
  IF a.useShortOutput /\ IsNone(data) THEN Raise("TypeError")
  ELSE IF a.useShortOutput /\ \E i \in 1..Len(data) : data[i] = " "
  THEN Ok(prefix \o <<"\"">> \o data \o <<"\"">>)
  ELSE Ok(prefix \o Str(data))

_formatData(a, prefix, data) ==
  IF a.useShortOutput /\ IsNone(data) THEN Raise("TypeError")
  ELSE IF a.useShortOutput /\ HasWhitespace(data)
  THEN Ok(prefix \o <<"\"">> \o data \o <<"\"">>)
  ELSE Ok(prefix \o Str(data))

_formatVersion(a, version) ==
  _formatData(a, IF a.useShortOutput THEN <<>> ELSE <<"V","e","r","s","i","o","n",":","\t">>, version)

_formatIdentifier(a, identifier) ==
  _formatData(a, IF a.useShortOutput THEN <<>> ELSE <<"D","i","s","t","r","i","b","u","t","o","r"," ","I","D",":","\t">>, identifier)

_formatDescription(a, description) ==
  _formatData(a, IF a.useShortOutput THEN <<>> ELSE <<"D","e","s","c","r","i","p","t","i","o","n",":","\t">>, description)

_formatRelease(a, release) ==
  _formatData(a, IF a.useShortOutput THEN <<>> ELSE <<"R","e","l","e","a","s","e",":","\t">>, release)

_formatCodename(a, codename) ==
  _formatData(a, IF a.useShortOutput THEN <<>> ELSE <<"C","o","d","e","n","a","m","e",":","\t">>, codename)

\* os.linesep
linesep == <<"\n">>

\* info.append(x): a raise in x ends the property; acc is Ok(list) or a raise
InfoAppend(acc, wanted, x) ==
  IF ~acc.ok \/ ~wanted THEN acc
  ELSE IF ~x.ok THEN x
  ELSE Ok(Append(acc.val, x.val))

\* InfoList with the identifier appended before the version
InfoListIdFirst(a, d) ==
  InfoAppend(
    InfoAppend(
      InfoAppend(
        InfoAppend(
          InfoAppend(Ok(<<>>), a.reportIdentifier,
                     _formatIdentifier(a, d.identifier)),
          a.reportVersion, _formatVersion(a, d.version)),
        a.reportDescription, _formatDescription(a, d.description)),
      a.reportRelease, _formatRelease(a, d.release)),
    a.reportCodename, _formatCodename(a, d.codename))

\* the list info, built in lsb_release's order: Ok(list) or a raise
InfoList(a, d) ==
  InfoAppend(
    InfoAppend(
      InfoAppend(
        InfoAppend(
          InfoAppend(Ok(<<>>), a.reportVersion, _formatVersion(a, d.version)),
          a.reportIdentifier, _formatIdentifier(a, d.identifier)),
        a.reportDescription, _formatDescription(a, d.description)),
      a.reportRelease, _formatRelease(a, d.release)),
    a.reportCodename, _formatCodename(a, d.codename))

JoinInfo(a, list) ==
  IF ~list.ok THEN list
  ELSE IF ~a.useShortOutput THEN Ok(Join(linesep, list.val))
  ELSE Ok(Join(<<" ">>, list.val))

\* FormatInfo giving an empty report when a derivation raised
FormatInfoPartial(a, infoDict) ==
  IF ~infoDict.ok THEN Ok(<<>>) ELSE JoinInfo(a, InfoList(a, infoDict.val))

FormatInfo(a, infoDict) ==
  IF ~infoDict.ok THEN infoDict ELSE JoinInfo(a, InfoList(a, infoDict.val))

\* info deriving only the fields that are requested
infoRequestedOnly(cls, data, a) ==
  FormatInfo(a,
    InfoDict(IF a.reportCodename THEN _getCodename(cls, data) ELSE Ok(None),
             IF a.reportDescription THEN _getDescription(cls, data) ELSE Ok(None),
             IF a.reportIdentifier THEN _getIdentifier(data) ELSE Ok(None),
             IF a.reportRelease THEN _getRelease(data) ELSE Ok(None),
             IF a.reportVersion THEN _getVersion(cls, data) ELSE Ok(None)))

info(cls, data, a) == FormatInfo(a, _getInfo(cls, data))

(***************************************************************************)
(* LSB.makeLSB: the class table is keyed by the exact ID value.            *)
(***************************************************************************)
ClassTable ==
  [id \in {<<"c","e","n","t","o","s">>, <<"f","e","d","o","r","a">>, <<"r","h","e","l">>} |->
    CASE id = <<"c","e","n","t","o","s">> -> "CentOSLSB"
      [] id = <<"f","e","d","o","r","a">> -> "FedoraLSB"
      [] id = <<"r","h","e","l">> -> "RhelLSB"]

\* makeLSB falling back to the base behaviour for an unknown ID
makeLSBWithDefault(file) ==
  LET data == _getRawData(file)
  IN IF ~data.ok THEN data
     ELSE LET id == _getDistribution(data.val)
          IN IF id \notin DOMAIN ClassTable
             THEN Ok([cls |-> "RhelLSB", rawData |-> data.val])
             ELSE Ok([cls |-> ClassTable[id], rawData |-> data.val])

\* Ok([cls, rawData]) or the exception raised
makeLSB(file) ==
  LET data == _getRawData(file)
  IN IF ~data.ok THEN data
     ELSE LET id == _getDistribution(data.val)
          IN IF id \notin DOMAIN ClassTable THEN Raise("KeyError")
             ELSE Ok([cls |-> ClassTable[id], rawData |-> data.val])

(***************************************************************************)
(* LSBCommand._getArguments.                                               *)
(***************************************************************************)
Flags == {"all", "codename", "description", "id", "release", "version",
          "short"}

\* argparse: every store_true destination is False unless its flag is given
parse_args(given) ==
  [reportAll |-> "all" \in given,
   reportCodename |-> "codename" \in given,
   reportDescription |-> "description" \in given,
   reportIdentifier |-> "id" \in given,
   reportRelease |-> "release" \in given,
   reportVersion |-> "version" \in given,
   useShortOutput |-> "short" \in given]

\* _getArguments taking --short for a request, so that no default applies
_getArgumentsShortCounts(given) ==
  LET parsed == parse_args(given)
      arguments ==
        IF parsed.reportAll
        THEN [parsed EXCEPT !.reportCodename = TRUE,
                            !.reportDescription = TRUE,
                            !.reportIdentifier = TRUE,
                            !.reportRelease = TRUE,
                            !.reportVersion = TRUE]
        ELSE parsed
  IN [arguments EXCEPT !.reportVersion =
        \/ arguments.reportVersion
        \/ ~(\/ arguments.reportAll
             \/ arguments.reportCodename
             \/ arguments.reportDescription
             \/ arguments.reportIdentifier
             \/ arguments.reportRelease
             \/ arguments.useShortOutput)]

_getArguments(given) ==
  LET parsed == parse_args(given)
      arguments ==
        IF parsed.reportAll
        THEN [parsed EXCEPT !.reportCodename = TRUE,
                            !.reportDescription = TRUE,
                            !.reportIdentifier = TRUE,
                            !.reportRelease = TRUE,
                            !.reportVersion = TRUE]
        ELSE parsed
  IN [arguments EXCEPT !.reportVersion =
        \/ arguments.reportVersion
        \/ ~(\/ arguments.reportAll
             \/ arguments.reportCodename
             \/ arguments.reportDescription
             \/ arguments.reportIdentifier
             \/ arguments.reportRelease)]

(***************************************************************************)
(* The inputs: the content of /etc/os-release and the command line.        *)
(***************************************************************************)
\* one KEY=VALUE line, the value inside the quote q (q empty: unquoted)
Line(key, value, q) == key \o <<"=">> \o q \o value \o q

\* the file written from the values s: an absent value has no line; the
\* file carries an ID_LIKE line, a blank line and trailing blanks, as real
\* os-release files do
WriteFile(s) ==
  LET line(key, v) ==
        IF IsNone(v) THEN <<>> ELSE <<Line(key, v, s.quote)>>
  IN line(<<"N","A","M","E">>, s.NAME)
       \o line(<<"V","E","R","S","I","O","N">>, s.VERSION)
       \o line(<<"I","D">>, s.ID)
       \o <<Line(<<"I","D","_","L","I","K","E">>, <<"r","h","e","l"," ","f","e","d","o","r","a">>, <<"\"">>) \o <<" ">>>>
       \o line(<<"V","E","R","S","I","O","N","_","I","D">>, s.VERSION_ID)
       \o << <<>> >>
       \o line(<<"P","R","E","T","T","Y","_","N","A","M","E">>, s.PRETTY_NAME)

\* decimal digits of an integer
RECURSIVE Digits(_)
Digits(n) ==
  IF n < 10 THEN <<DigitChars[n + 1]>>
  ELSE Digits(n \div 10) \o <<DigitChars[(n % 10) + 1]>>

Decimal(n) == IF n < 0 THEN <<"-">> \o Digits(0 - n) ELSE Digits(n)

\* every text of at most n characters over an alphabet
Texts(alphabet, n) == UNION {[1..k -> alphabet] : k \in 0..n}

\* VERSION and PRETTY_NAME values enumerated exhaustively
ParenAlphabet == {"(", ")", "a", " ", "\t"}
ParenValues == Texts(ParenAlphabet, MaxLen)

\* VERSION_ID values: the numbers around 0..99
ReleaseValues == {Decimal(n) : n \in (0 - RelMargin)..(99 + RelMargin)}

\* NAME values: up to MaxNameParts parts
NameParts == {<<"L","i","n","u","x">>, <<"D","e","b","i","a","n">>, <<"E","x">>, <<" ">>, <<"u">>}
RECURSIVE NamesOf(_)
NamesOf(k) ==
  IF k = 0 THEN {<<>>}
  ELSE NamesOf(k - 1) \cup {n \o q : n \in NamesOf(k - 1), q \in NameParts}
NameValues == NamesOf(MaxNameParts)

IdValues == {<<"c","e","n","t","o","s">>, <<"f","e","d","o","r","a">>, <<"r","h","e","l">>}

\* the values of the examples
EXAMPLE_NAME == <<"E","x","a","m","p","l","e"," ","L","i","n","u","x">>
EXAMPLE_VERSION == <<"1",".","0"," ","(","C","o","d","e","n","a","m","e",")">>
EXAMPLE_PRETTY == <<"E","x","a","m","p","l","e"," ","1",".","0"," ","(","C","o","d","e","n","a","m","e",")">>

Inputs(ids, names, versions, versionIds, prettyNames, quotes) ==
  [ID : ids, NAME : names, VERSION : versions, VERSION_ID : versionIds,
   PRETTY_NAME : prettyNames, quote : quotes]

\* the inputs of the deriver methods: one value at a time is enumerated
\* exhaustively, the others are those of the examples
DeriveInputs ==
  LET dq == {<<"\"">>}
      two == {<<"0">>, <<"3","5">>}
  IN Inputs(IdValues, {EXAMPLE_NAME}, ParenValues \cup {None}, two,
            {EXAMPLE_PRETTY}, dq)
     \cup Inputs(IdValues, {EXAMPLE_NAME}, {EXAMPLE_VERSION, <<"8">>},
                 ReleaseValues \cup {None, <<"8",".","5">>}, {EXAMPLE_PRETTY}, dq)
     \cup Inputs(IdValues, NameValues \cup {None}, {EXAMPLE_VERSION}, two,
                 {EXAMPLE_PRETTY}, dq)
     \cup Inputs(IdValues, {EXAMPLE_NAME}, {EXAMPLE_VERSION}, two,
                 ParenValues \cup {None}, dq)

\* the inputs of whole runs
RunInputs ==
  Inputs(IdValues \cup {<<"F","e","d","o","r","a">>, <<"r","h","e","l","8">>, None},
         {<<"F","e","d","o","r","a"," ","L","i","n","u","x">>, None},
         {<<"3","5"," ","(","W","o","r","k","s","t","a","t","i","o","n"," ","E","d","i","t","i","o","n",")">>, <<"9","\t","(","B","l","u","e",")">>, <<"8">>, None},
         {<<"3","5">>, <<"0">>, <<"-","1">>, <<"8",".","5">>, <<"1","0","0">>, None},
         {<<"F","e","d","o","r","a"," ","L","i","n","u","x"," ","3","5"," ","(","W","o","r","k","s","t","a","t","i","o","n"," ","E","d","i","t","i","o","n",")">>, None},
         {<<"\"">>, <<"'">>, <<>>})

\* the input of the run that finds the file unreadable
Unwritten == Inputs({None}, {None}, {None}, {None}, {None}, {<<>>})

NoArgs == parse_args({})

(***************************************************************************)
(* A run of LSBCommand.run:                                                *)
(*   print(LSB.makeLSB(self._getArguments()).info)                        *)
(***************************************************************************)
Init ==
  /\ \/ /\ src \in RunInputs
        /\ osRelease = [readable |-> TRUE, lines |-> WriteFile(src)]
     \/ /\ src \in Unwritten
        /\ osRelease = [readable |-> FALSE, lines |-> <<>>]
  /\ argv \in SUBSET Flags
  /\ args = NoArgs
  /\ rawData = <<>>
  /\ lsb = "none"
  /\ pc = "start"
  /\ report = None
  /\ error = "none"
  /\ stdout = <<>>
  /\ call = "none"
  /\ arg = None
  /\ ret = NoCall

GetArguments ==
  /\ pc = "start"
  /\ args' = _getArguments(argv)
  /\ pc' = "makeLSB"
  /\ UNCHANGED <<src, osRelease, argv, rawData, lsb, report, error, stdout,
                 call, arg, ret>>

MakeLSB ==
  /\ pc = "makeLSB"
  /\ LET made == makeLSB(osRelease)
     IN IF made.ok
        THEN /\ rawData' = made.val.rawData
             /\ lsb' = made.val.cls
             /\ pc' = "info"
             /\ error' = error
        ELSE /\ error' = made.err
             /\ pc' = "failed"
             /\ UNCHANGED <<rawData, lsb>>
  /\ UNCHANGED <<src, osRelease, argv, args, report, stdout, call, arg, ret>>

Info ==
  /\ pc = "info"
  /\ LET r == info(lsb, rawData, args)
     IN IF r.ok
        THEN /\ report' = r.val
             /\ pc' = "print"
             /\ error' = error
        ELSE /\ error' = r.err
             /\ pc' = "failed"
             /\ report' = report
  /\ UNCHANGED <<src, osRelease, argv, args, rawData, lsb, stdout, call, arg, ret>>

\* print(text) writes the text and a newline
PrintReport ==
  /\ pc = "print"
  /\ stdout' = Append(stdout, report \o <<"\n">>)
  /\ pc' = "done"
  /\ UNCHANGED <<src, osRelease, argv, args, rawData, lsb, report, error,
                 call, arg, ret>>

Next == GetArguments \/ MakeLSB \/ Info \/ PrintReport

Spec == Init /\ [][Next]_vars

(***************************************************************************)
(* The methods of a constructed deriver, called one at a time.             *)
(***************************************************************************)
DeriveInit ==
  /\ src \in DeriveInputs
  /\ osRelease = [readable |-> TRUE, lines |-> WriteFile(src)]
  /\ argv = {}
  /\ args = _getArguments({})
  /\ LET made == makeLSB(osRelease)
     IN /\ rawData = made.val.rawData
        /\ lsb = made.val.cls
  /\ pc = "constructed"
  /\ report = None
  /\ error = "none"
  /\ stdout = <<>>
  /\ call = "none"
  /\ arg = None
  /\ ret = NoCall

Returns(method, result) ==
  /\ pc = "constructed"
  /\ call' = method
  /\ ret' = result
  /\ pc' = "returned"
  /\ UNCHANGED <<src, osRelease, argv, args, rawData, lsb, report, error,
                 stdout, arg>>

CallGetReleaseAsText ==
  /\ lsb \in {"CentOSLSB", "FedoraLSB"}
  /\ Returns("_getReleaseAsText", _getReleaseAsText(rawData))

CallGetCodename == Returns("_getCodename", _getCodename(lsb, rawData))

CallGetDescription ==
  Returns("_getDescription", _getDescription(lsb, rawData))

CallGetIdentifier == Returns("_getIdentifier", _getIdentifier(rawData))

CallGetRelease == Returns("_getRelease", _getRelease(rawData))

CallGetVersion == Returns("_getVersion", _getVersion(lsb, rawData))

DeriveNext ==
  \/ CallGetReleaseAsText
  \/ CallGetCodename
  \/ CallGetDescription
  \/ CallGetIdentifier
  \/ CallGetRelease
  \/ CallGetVersion

SpecDerive == DeriveInit /\ [][DeriveNext]_vars

(***************************************************************************)
(* _getLineData called on the lines read from a file.                      *)
(***************************************************************************)
\* the longest value enumerated, and the most lines of a file
MaxValue == 4
MaxLines == 3

\* values enumerated exhaustively: quotes of both kinds, a letter, an "="
QuoteAlphabet == {"\"", "'", "a", "="}
QuoteValues == Texts(QuoteAlphabet, MaxValue)

\* lines whose keys extend one another, repeat, lack the "=" or hold the
\* key further right
LineSamples ==
  {<<"I","D","=","a">>, <<"I","D","_","L","I","K","E","=","b">>, <<"V","E","R","S","I","O","N","=","c">>, <<"V","E","R","S","I","O","N","_","I","D","=","\"","d","\"">>, <<"I","D","=","'","e","'">>, <<"V","E","R","S","I","O","N">>,
   <<"X","I","D","=","f">>, <<"I","D","=">>, <<>>}

LineIds == {<<"I","D">>, <<"I","D","_","L","I","K","E">>, <<"V","E","R","S","I","O","N">>, <<"V","E","R","S","I","O","N","_","I","D">>, <<"N","A","M","E">>}

\* the files: one line with every value, and every sequence of sample lines
LineFiles ==
  {<<<<"I","D","=">> \o v>> : v \in QuoteValues}
    \cup UNION {[1..k -> LineSamples] : k \in 0..MaxLines}

LineInit ==
  /\ src \in Unwritten
  /\ osRelease \in [readable : {TRUE}, lines : LineFiles]
  /\ argv = {}
  /\ args = NoArgs
  /\ rawData = _getRawData(osRelease).val
  /\ lsb = "none"
  /\ pc = "read"
  /\ report = None
  /\ error = "none"
  /\ stdout = <<>>
  /\ call = "none"
  /\ arg = None
  /\ ret = NoCall

CallGetLineData ==
  /\ pc = "read"
  /\ \E lineId \in LineIds :
       /\ arg' = lineId
       /\ ret' = Ok(_getLineData(lineId, rawData))
  /\ call' = "_getLineData"
  /\ pc' = "returned"
  /\ UNCHANGED <<src, osRelease, argv, args, rawData, lsb, report, error,
                 stdout>>

LineNext == CallGetLineData

SpecLine == LineInit /\ [][LineNext]_vars

(***************************************************************************)
(* What the claims are stated with.                                        *)
(***************************************************************************)
\* the number a VERSION_ID value writes, when it is one of 0..99
IsRelease(v, n) == v = Decimal(n)

\* the spelling of n in 0..99, from the word tables
Spelling(n) ==
  IF n <= 9 THEN digitMap[n]
  ELSE IF n <= 19 THEN teensMap[n - 10]
  ELSE IF n % 10 = 0 THEN tensMap[n]
  ELSE tensMap[n - (n % 10)] \o <<" ">> \o digitMap[n % 10]

Without(s, chars) == SelectSeq(s, LAMBDA c : c \notin chars)
Count(s, c) == Cardinality({i \in 1..Len(s) : s[i] = c})

\* lsb_release's field order, the flag and the label of each field
FieldOrder ==
  <<"version", "identifier", "description", "release", "codename">>

Wanted(a, f) ==
  CASE f = "version" -> a.reportVersion
    [] f = "identifier" -> a.reportIdentifier
    [] f = "description" -> a.reportDescription
    [] f = "release" -> a.reportRelease
    [] f = "codename" -> a.reportCodename

Label(f) ==
  CASE f = "version" -> <<"V","e","r","s","i","o","n">>
    [] f = "identifier" -> <<"D","i","s","t","r","i","b","u","t","o","r"," ","I","D">>
    [] f = "description" -> <<"D","e","s","c","r","i","p","t","i","o","n">>
    [] f = "release" -> <<"R","e","l","e","a","s","e">>
    [] f = "codename" -> <<"C","o","d","e","n","a","m","e">>

Requested(a) == SelectSeq(FieldOrder, LAMBDA f : Wanted(a, f))

\* the values of the five fields of the constructed deriver
Values == _getInfo(lsb, rawData).val

Reported == pc \in {"print", "done"}

\* ---------------------------------------------------------------------
\* C1: for every release n in 0..99 _getReleaseAsText returns the English
\* spelling: the ones word for 0..9 (0: the empty string), the teens word
\* for 10..19, otherwise the decade word, one space and the ones word,
\* a multiple of ten being the decade word alone (35: "Thirty Five",
\* 40: "Forty"); the result has no leading or trailing whitespace.
C1_ReleaseAsText ==
  call = "_getReleaseAsText" =>
    \A n \in 0..99 :
      IsRelease(src.VERSION_ID, n) =>
        /\ ret = Ok(Spelling(n))
        /\ n = 0 => ret.val = <<>>
        /\ n = 35 => ret.val = <<"T","h","i","r","t","y"," ","F","i","v","e">>
        /\ n = 40 => ret.val = <<"F","o","r","t","y">>
        /\ n \in 10..19 => ret.val = tensMap[10][n - 10]
        /\ ret.val # <<>> =>
             /\ ret.val[1] \notin Whitespace
             /\ ret.val[Len(ret.val)] \notin Whitespace

C1_Witness ==
  /\ call = "_getReleaseAsText"
  /\ src.VERSION_ID = <<"4","0">>
  /\ ret = Ok(<<"F","o","r","t","y">>)

\* ---------------------------------------------------------------------
\* C2: makeLSB selects the deriver by exact match of the ID value: centos,
\* fedora and rhel construct their own deriver; any other ID value, and a
\* missing ID line, fails with an error, constructs no deriver (there is
\* no default family) and the run prints nothing.
C2_MakeLSB ==
  (osRelease.readable /\ pc \in {"info", "print", "done", "failed"}) =>
    /\ src.ID = <<"c","e","n","t","o","s">> => lsb = "CentOSLSB"
    /\ src.ID = <<"f","e","d","o","r","a">> => lsb = "FedoraLSB"
    /\ src.ID = <<"r","h","e","l">> => lsb = "RhelLSB"
    /\ src.ID \notin {<<"c","e","n","t","o","s">>, <<"f","e","d","o","r","a">>, <<"r","h","e","l">>} =>
         /\ pc = "failed"
         /\ error = "KeyError"
         /\ lsb = "none"
         /\ report = None
         /\ stdout = <<>>

C2_Witness ==
  /\ src.ID = <<"r","h","e","l","8">>
  /\ pc = "failed"
  /\ error = "KeyError"
  /\ lsb = "none"

\* ---------------------------------------------------------------------
LongLine(f) == Label(f) \o <<":", "\t">> \o Str(Values[f])

LongReport(a) ==
  Join(<<"\n">>, [i \in 1..Len(Requested(a)) |-> LongLine(Requested(a)[i])])

\* C3: in long mode LSB.info is exactly the requested fields in the order
\* version, identifier, description, release, codename, each its label, a
\* colon, a tab and the unquoted value, joined by the line separator with
\* none after the last field.  (A value that is None is formatted as the
\* text None.)
C3_LongInfo ==
  (Reported /\ ~args.useShortOutput) => report = LongReport(args)

C3_Witness ==
  /\ pc = "print"
  /\ ~args.useShortOutput
  /\ Len(Requested(args)) = 5
  /\ Count(report, "\n") = 4

\* ---------------------------------------------------------------------
ShortValue(f) ==
  IF \E i \in 1..Len(Values[f]) : Values[f][i] \in Whitespace
  THEN <<"\"">> \o Values[f] \o <<"\"">>
  ELSE Values[f]

ShortReport(a) ==
  Join(<<" ">>, [i \in 1..Len(Requested(a)) |-> ShortValue(Requested(a)[i])])

\* C4: in short mode LSB.info is the requested values in the fixed order
\* joined by one space, without labels, a value being wrapped in double
\* quotes if and only if it contains a whitespace character; in long mode
\* the same value is never quoted.
C4_ShortInfo ==
  /\ (Reported /\ args.useShortOutput) => report = ShortReport(args)
  /\ (Reported /\ ~args.useShortOutput) => Count(report, "\"") = 0

C4_Witness ==
  /\ pc = "print"
  /\ args.useShortOutput
  /\ args.reportVersion /\ args.reportRelease
  /\ HasWhitespace(Values.version)
  /\ ~HasWhitespace(Values.release)
  /\ Count(report, "\"") = 2

\* ---------------------------------------------------------------------
FieldFlag ==
  [f \in {"version", "identifier", "description", "release", "codename"} |->
    IF f = "identifier" THEN "id" ELSE f]

Selected(a) == {f \in DOMAIN FieldFlag : Wanted(a, f)}

Given(flags) == {f \in DOMAIN FieldFlag : FieldFlag[f] \in flags}

\* C5: after _getArguments the fields reported are all five if --all is
\* given, otherwise exactly those whose flags were given, and exactly
\* {version} when no field flag is given, with or without --short; --short
\* never changes the selection, and the selection is never empty.
C5_Selection ==
  pc # "start" =>
    /\ "all" \in argv => Selected(args) = DOMAIN FieldFlag
    /\ ("all" \notin argv /\ Given(argv) # {}) => Selected(args) = Given(argv)
    /\ ("all" \notin argv /\ Given(argv) = {}) => Selected(args) = {"version"}
    /\ Selected(args) # {}
    /\ args.useShortOutput = ("short" \in argv)
    /\ Selected(args) = Selected(_getArguments(argv \ {"short"}))
    /\ Selected(args) = Selected(_getArguments(argv \cup {"short"}))

C5_Witness ==
  /\ pc = "makeLSB"
  /\ argv = {"short"}
  /\ Selected(args) = {"version"}

\* ---------------------------------------------------------------------
\* Parentheses of a value.
HasPair(v) ==
  \E i \in 1..Len(v) : \E j \in (i + 1)..Len(v) : v[i] = "(" /\ v[j] = ")"

FirstOpen(v) == Min({i \in 1..Len(v) : v[i] = "("})
FollowingClose(v) == Min({j \in (FirstOpen(v) + 1)..Len(v) : v[j] = ")"})

\* the ) that closes the ( at i, counting nested pairs
Depth(v, i, j) ==
  Cardinality({k \in i..j : v[k] = "("}) - Cardinality({k \in i..j : v[k] = ")"})
Closes(v, i) == {j \in (i + 1)..Len(v) : Depth(v, i, j) = 0}

LastClose(v) == Max({j \in 1..Len(v) : v[j] = ")"})
\* the last ( with at least gap - 1 characters between it and the last )
OpensBefore(v, gap) ==
  IF Count(v, ")") = 0 THEN {}
  ELSE {i \in 1..(LastClose(v) - gap) : v[i] = "("}

C7_WordsCodename ==
  (lsb \in {"CentOSLSB", "FedoraLSB"} /\ call = "_getCodename") =>
    \A n \in 0..99 :
      IsRelease(src.VERSION_ID, n) =>
        /\ ret = Ok(Without(Spelling(n), {" "}))
        /\ n = 35 => ret.val = <<"T","h","i","r","t","y","F","i","v","e">>

C7_Witness ==
  /\ lsb = "FedoraLSB"
  /\ call = "_getCodename"
  /\ ~IsNone(src.VERSION)
  /\ ~HasPair(src.VERSION)
  /\ src.VERSION_ID = <<"3","5">>
  /\ ret = Ok(<<"T","h","i","r","t","y","F","i","v","e">>)

\* ---------------------------------------------------------------------
\* the value a fedora or centos version / description is made from
Source ==
  IF call = "_getVersion" THEN src.VERSION ELSE src.PRETTY_NAME

C9_CentOS ==
  (/\ lsb = "CentOSLSB"
   /\ call \in {"_getVersion", "_getDescription"}
   /\ ~IsNone(Source)) =>
    \A n \in 0..99 :
      IsRelease(src.VERSION_ID, n) =>
        ret = Ok(Source \o <<" ", "(">> \o Spelling(n) \o <<")">>)

C9_Witness ==
  /\ lsb = "CentOSLSB"
  /\ call = "_getVersion"
  /\ src.VERSION_ID = <<"1","2">>
  /\ ret = Ok(<<"1",".","0"," ","(","C","o","d","e","n","a","m","e",")"," ","(","T","w","e","l","v","e",")">>)

\* ---------------------------------------------------------------------
EndsWith(s, suffix) ==
  /\ Len(s) >= Len(suffix)
  /\ SubSeq(s, Len(s) - Len(suffix) + 1, Len(s)) = suffix

\* C10: the identifier is the NAME value with a trailing "Linux" token
\* removed if present, trimmed, and all whitespace removed; a NAME that
\* does not end in "Linux" loses only whitespace.  (A NAME ending in the
\* letters Linux glued to a word is left open.)
C10_Identifier ==
  (call = "_getIdentifier" /\ ~IsNone(src.NAME)) =>
    LET name == src.NAME
        n == Len(name)
        token == /\ EndsWith(name, <<"L","i","n","u","x">>)
                 /\ (n = 5 \/ name[n - 5] \in Whitespace)
    IN /\ token => ret = Ok(Without(SubSeq(name, 1, n - 5), Whitespace))
       /\ ~EndsWith(name, <<"L","i","n","u","x">>) => ret = Ok(Without(name, Whitespace))

\* the line begins with exactly the key and an "="
Begins(line, key) ==
  /\ Len(line) > Len(key)
  /\ \A i \in 1..Len(key) : line[i] = key[i]
  /\ line[Len(key) + 1] = "="

\* what follows the "=" of the line
Remainder(line, key) == SubSeq(line, Len(key) + 2, Len(line))

QuoteChars == {"\"", "'"}

\* the lines of rawData that begin with the key looked up
Found == {i \in 1..Len(rawData) : Begins(rawData[i], arg)}

\* r is s without the quote characters s begins and ends with
Unquoted(s, r) ==
  \E a, b \in 0..Len(s) :
    /\ a + b <= Len(s)
    /\ \A i \in 1..a : s[i] \in QuoteChars
    /\ \A i \in (Len(s) - b + 1)..Len(s) : s[i] \in QuoteChars
    /\ r = SubSeq(s, a + 1, Len(s) - b)
    /\ \/ r = <<>>
       \/ r[1] \notin QuoteChars /\ r[Len(r)] \notin QuoteChars

\* s holds a character that is not a quote
Quoting(s) == \E i \in 1..Len(s) : s[i] \notin QuoteChars

\* s without the one pair of equal quotes around it, if there is one
StripPair(s) ==
  IF Len(s) >= 2 /\ s[1] \in QuoteChars /\ s[Len(s)] = s[1]
  THEN SubSeq(s, 2, Len(s) - 1)
  ELSE s

\* ---------------------------------------------------------------------
\* C11 as stated: _getLineData returns what follows "key=" on the first
\* line beginning with it, with at most one matching pair of quotes around
\* it removed: the remainder itself or the remainder without its pair.
\* Stated for the remainders that hold more than quote characters.
C11_Original ==
  (call = "_getLineData" /\ Found # {}) =>
    \A i \in Found :
      ((\A j \in Found : i <= j) /\ Quoting(Remainder(rawData[i], arg))) =>
        ret.val \in {Remainder(rawData[i], arg),
                     StripPair(Remainder(rawData[i], arg))}

\* ---------------------------------------------------------------------
\* C11 (amended): _getLineData returns what follows "key=" on the first
\* line, in order, that begins with exactly "key=" (a line of a longer
\* key, of the key without "=" or holding the key further right is not
\* such a line), without any of the single and double quote characters it
\* begins and ends with, however many and whether or not they match; it
\* returns None, which no found value is, exactly when no line begins
\* with "key=".
C11_LineData ==
  call = "_getLineData" =>
    /\ ret.ok
    /\ IsNone(ret.val) <=> Found = {}
    /\ \A i \in Found :
         (\A j \in Found : i <= j) =>
           Unquoted(Remainder(rawData[i], arg), ret.val)

\* ID is looked up in a file whose first line is the ID_LIKE line and that
\* has two ID lines, the first of them quoted
C11_Witness ==
  /\ call = "_getLineData"
  /\ arg = <<"I","D">>
  /\ rawData = <<<<"I","D","_","L","I","K","E","=","b">>, <<"I","D","=","'","e","'">>, <<"I","D","=","a">>>>
  /\ ret = Ok(<<"e">>)

\* the value holds no "(" with a ")" after it
NoParenthetical(v) ==
  ~IsNone(v) /\ ~\E i, j \in 1..Len(v) : i < j /\ v[i] = "(" /\ v[j] = ")"

\* the family the ID value names
Family == IF src.ID \in IdValues THEN src.ID ELSE None

\* the failures of a run, told from what was written to the file
Unreadable == ~osRelease.readable
Unsupported == osRelease.readable /\ src.ID \notin IdValues
ParentheticalAbsent ==
  \/ Family = <<"r","h","e","l">> /\ NoParenthetical(src.VERSION)
  \/ Family = <<"f","e","d","o","r","a">> /\ NoParenthetical(src.VERSION)
  \/ Family = <<"f","e","d","o","r","a">> /\ NoParenthetical(src.PRETTY_NAME)
ReleaseOutOfRange ==
  /\ Family \in {<<"c","e","n","t","o","s">>, <<"f","e","d","o","r","a">>}
  /\ ~IsNone(src.VERSION_ID)
  /\ \A n \in 0..99 : ~IsRelease(src.VERSION_ID, n)
Failure ==
  Unreadable \/ Unsupported \/ ParentheticalAbsent \/ ReleaseOutOfRange

\* the run is over
Ended == pc \in {"done", "failed"}

RECURSIVE Scan(_, _, _, _, _)
Scan(s, i, cur, quoted, out) ==
  IF i > Len(s) THEN Append(out, cur)
  ELSE IF s[i] = "\"" THEN Scan(s, i + 1, Append(cur, s[i]), ~quoted, out)
  ELSE IF s[i] = " " /\ ~quoted THEN Scan(s, i + 1, <<>>, quoted, Append(out, cur))
  ELSE Scan(s, i + 1, Append(cur, s[i]), quoted, out)

Segments(s) == Scan(s, 1, <<>>, FALSE, <<>>)

\* a snapshot the derivations accept: a supported ID, every line present,
\* a parenthetical in VERSION and in PRETTY_NAME, a VERSION_ID in 0..99
InContract ==
  /\ osRelease.readable
  /\ src.ID \in IdValues
  /\ ~IsNone(src.NAME)
  /\ ~IsNone(src.VERSION) /\ ~NoParenthetical(src.VERSION)
  /\ ~IsNone(src.PRETTY_NAME) /\ ~NoParenthetical(src.PRETTY_NAME)
  /\ \E n \in 0..99 : IsRelease(src.VERSION_ID, n)

\* ---------------------------------------------------------------------
\* C13: for every supported family and every in-contract snapshot the
\* short report is one line that splits, at the spaces outside double
\* quotes, into exactly one non-empty segment per requested field, in the
\* fixed order, so that all five fields give exactly five segments.
C13_ShortSegments ==
  (Reported /\ args.useShortOutput /\ InContract) =>
    /\ Count(report, "\n") = 0
    /\ Len(Segments(report)) = Len(Requested(args))
    /\ \A k \in 1..Len(Segments(report)) : Segments(report)[k] # <<>>
    /\ Len(Requested(args)) = 5 => Len(Segments(report)) = 5

\* the derivation of each field by the constructed deriver
Derive(f) ==
  CASE f = "version" -> _getVersion(lsb, rawData)
    [] f = "identifier" -> _getIdentifier(rawData)
    [] f = "description" -> _getDescription(lsb, rawData)
    [] f = "release" -> _getRelease(rawData)
    [] f = "codename" -> _getCodename(lsb, rawData)

\* info has been evaluated
Evaluated == lsb # "none" /\ pc \in {"print", "done", "failed"}

\* ---------------------------------------------------------------------
\* C14: info derives all five fields before it formats any: whatever the
\* requested subset, there is a report only if all five derivations
\* succeeded, and a derivation that fails, of a field requested or not,
\* ends the run failed with the error of a derivation, no report and
\* nothing printed.
C14_AllDerived ==
  Evaluated =>
    /\ Reported => \A f \in DOMAIN FieldFlag : Derive(f).ok
    /\ \A f \in DOMAIN FieldFlag :
         ~Derive(f).ok =>
           /\ pc = "failed"
           /\ report = None
           /\ stdout = <<>>
           /\ \E g \in DOMAIN FieldFlag : ~Derive(g).ok /\ error = Derive(g).err

\* rhel, a VERSION without parenthetical, only the release requested: the
\* codename, which is not requested, fails and the run has failed
C14_Witness ==
  /\ lsb = "RhelLSB"
  /\ src.VERSION = <<"8">>
  /\ argv = {"release"}
  /\ ~args.reportCodename /\ args.reportRelease
  /\ ~Derive("codename").ok
  /\ Derive("release").ok
  /\ pc = "failed"
  /\ error = "AttributeError"
  /\ stdout = <<>>

\* the text holds the text sub
Holds(text, sub) ==
  \E i \in 1..(Len(text) - Len(sub) + 1) :
    SubSeq(text, i, i + Len(sub) - 1) = sub

\* a line the fields are read from is absent from the file
LineAbsent ==
  \/ IsNone(src.VERSION)
  \/ IsNone(src.NAME)
  \/ IsNone(src.PRETTY_NAME)
  \/ IsNone(src.VERSION_ID)

\* ---------------------------------------------------------------------
\* C15: every value of a printed report is text of a line of the file.
\* For every family, mode and requested subset, a run on a file that lacks
\* the VERSION, NAME, PRETTY_NAME or VERSION_ID line ends failed with
\* nothing printed, and no report holds the placeholder None in place of
\* a value that was not found (no value of the files does hold that text).
C15_NoPlaceholder ==
  /\ (lsb # "none" /\ Ended /\ LineAbsent) => (pc = "failed" /\ stdout = <<>>)
  /\ Reported =>
       /\ \A k \in 1..Len(Requested(args)) : ~IsNone(Values[Requested(args)[k]])
       /\ ~Holds(report, <<"N","o","n","e">>)

====
